---------------------------- MODULE Spec2Model ----------------------------
(***************************************************************************)
(* Model of @ulu/project-packager (src/index.js): createPackage, createZip,*)
(* getFilepath and getTimeStamp, over a file system namespace, a host      *)
(* clock and the event loop of one Node process.                           *)
(*                                                                         *)
(* Strings are sequences of one-character strings, so that the formatting  *)
(* of dates, counters and paths is computed character by character.        *)
(***************************************************************************)
EXTENDS Integers, Sequences, FiniteSets, TLC

VARIABLES
    fs,        \* the file system namespace: canonical path -> entry
    now,       \* the host's local date, as the getters of a JS Date give it
    ticks,     \* how many times the date has advanced
    inv,       \* the createPackage invocations of the process
    last,      \* the last standalone call of an exported function and its result
    uncaught   \* an 'error' event no listener handled has ended the process

vars == <<fs, now, ticks, inv, last, uncaught>>

---------------------------------------------------------------------------
(* Bounds of the model.                                                    *)

\* createPackage invocations of one process
NumInv == 2
\* day changes of the host clock in one behaviour
MaxTicks == 1
\* largest numeric suffix among the archives that exist initially
MaxSuffix == 2
\* largest count a caller passes to getFilepath
MaxCount == 2

---------------------------------------------------------------------------
(* Strings.                                                                *)

DigitChars == <<"0", "1", "2", "3", "4", "5", "6", "7", "8", "9">>

IsDigit(c) == \E i \in 1..10 : DigitChars[i] = c

DigitVal(c) == (CHOOSE i \in 1..10 : DigitChars[i] = c) - 1

\* The decimal rendering a template literal gives a non-negative integer.
RECURSIVE ToStr(_)
ToStr(n) ==
    IF n < 10 THEN <<DigitChars[n + 1]>>
    ELSE ToStr(n \div 10) \o <<DigitChars[(n % 10) + 1]>>

\* The number a string of decimal digits denotes.
RECURSIVE NumVal(_)
NumVal(s) ==
    IF s = <<>> THEN 0
    ELSE 10 * NumVal(SubSeq(s, 1, Len(s) - 1)) + DigitVal(s[Len(s)])

---------------------------------------------------------------------------
(* The host clock: a JS Date seen through getFullYear, getMonth (zero      *)
(* based) and getDate.                                                     *)

Years == {1970, 2000, 2024, 2025}

IsLeap(y) == (y % 4 = 0 /\ y % 100 # 0) \/ y % 400 = 0

DaysIn(y, m) ==
    IF m = 1 THEN (IF IsLeap(y) THEN 29 ELSE 28)
    ELSE IF m \in {3, 5, 8, 10} THEN 30
    ELSE 31

Dates ==
    {d \in [year : Years, month : 0..11, date : 1..31] :
        d.date <= DaysIn(d.year, d.month)}

NextDay(d) ==
    IF d.date < DaysIn(d.year, d.month) THEN [d EXCEPT !.date = @ + 1]
    ELSE IF d.month < 11 THEN [d EXCEPT !.month = @ + 1, !.date = 1]
    ELSE [year |-> d.year + 1, month |-> 0, date |-> 1]

\* pad of getTimeStamp, without the leading zero
pad_NoZero(x) == ToStr(x)

\* const pad = (x) => x < 10 ? `0${ x }` : x;
pad(x) == IF x < 10 THEN <<"0">> \o ToStr(x) ELSE ToStr(x)

\* getTimeStamp, read at the date d
getTimeStamp(d) ==
    LET month == pad(d.month + 1)
        day   == pad(d.date)
    IN  ToStr(d.year) \o month \o day

---------------------------------------------------------------------------
(* Paths: what path.join and fs.existsSync do with the directory and file  *)
(* names of the model (no ".." segment occurs in them).                    *)

\* null, the default inputDir; fs.existsSync is false for null and for "".
null == <<>>

\* The segments of p between "/" separators.
RECURSIVE SplitPath(_)
SplitPath(p) ==
    IF \A i \in 1..Len(p) : p[i] # "/" THEN <<p>>
    ELSE LET i == CHOOSE j \in 1..Len(p) :
                      p[j] = "/" /\ \A k \in 1..(j - 1) : p[k] # "/"
         IN  <<SubSeq(p, 1, i - 1)>> \o SplitPath(SubSeq(p, i + 1, Len(p)))

RECURSIVE JoinSegments(_)
JoinSegments(segs) ==
    IF segs = <<>> THEN <<>>
    ELSE IF Len(segs) = 1 THEN segs[1]
    ELSE segs[1] \o <<"/">> \o JoinSegments(Tail(segs))

\* path.normalize without its trailing separator: empty and "." segments
\* dropped, a leading "/" kept.
Canon(p) ==
    LET segs == SelectSeq(SplitPath(p), LAMBDA s : s # <<>> /\ s # <<".">>)
        body == JoinSegments(segs)
    IN  IF p # <<>> /\ p[1] = "/" THEN <<"/">> \o body
        ELSE IF body = <<>> THEN <<".">>
        ELSE body

\* path.join(dir, file)
pathJoin(dir, file) == Canon(dir \o <<"/">> \o file)

\* fs.existsSync(p) against the set of existing canonical paths
existsSync(p, files) == p # null /\ Canon(p) \in files

---------------------------------------------------------------------------
(* Options.                                                                *)

ProjectPackage ==
    <<"p", "r", "o", "j", "e", "c", "t", "-", "p", "a", "c", "k", "a", "g", "e">>
DistPackages ==
    <<".", "/", "d", "i", "s", "t", "/", "p", "a", "c", "k", "a", "g", "e", "s", "/">>
Zip == <<"z", "i", "p">>

defaults ==
    [name            |-> ProjectPackage,
     inputDir        |-> null,
     outputDir       |-> DistPackages,
     timestamp       |-> TRUE,
     increment       |-> TRUE,
     overwrite       |-> FALSE,
     format          |-> Zip,
     archiverOptions |-> <<>>]

\* Object.assign({}, a, b)
ObjectAssign(a, b) ==
    [k \in DOMAIN a \cup DOMAIN b |-> IF k \in DOMAIN b THEN b[k] ELSE a[k]]

---------------------------------------------------------------------------
(* getFilepath.  env.files is the set of paths that exist while the call   *)
(* runs; env.clock gives the dates successive recursion levels read, since *)
(* every level calls getTimeStamp() anew: the date is clock.today for the  *)
(* next clock.left levels and the day after from then on (left = 0: the    *)
(* date does not change during the call).                                  *)

\* the date the i-th level of a call reads
ClockAt(clock, i) ==
    IF clock.left = 0 \/ i <= clock.left THEN clock.today
    ELSE NextDay(clock.today)

\* the environment of the next recursion level
Later(env) ==
    [env EXCEPT !.clock =
        IF @.left = 0 THEN @
        ELSE IF @.left = 1 THEN [today |-> NextDay(@.today), left |-> 0]
        ELSE [@ EXCEPT !.left = @ - 1]]

fileTime(options, d) ==
    IF options.timestamp THEN <<"-">> \o getTimeStamp(d) ELSE <<>>

\* fileCount, with the suffix also on the first attempt
fileCount_FromZero(options, count) ==
    IF options.increment THEN <<"-">> \o ToStr(count) ELSE <<>>

fileCount(options, count) ==
    IF options.increment /\ count # 0 THEN <<"-">> \o ToStr(count) ELSE <<>>

filename(options, count, d) ==
    options.name \o fileTime(options, d) \o fileCount(options, count)
        \o <<".">> \o options.format

\* the candidate path of attempt count, composed at date d
filepath(options, count, d) ==
    pathJoin(options.outputDir, filename(options, count, d))

\* what the branches taken when the candidate exists decide,
\* with overwrite consulted before increment
onExists_OverwriteFirst(options) ==
    IF options.overwrite THEN "return"
    ELSE IF options.increment THEN "recurse"
    ELSE "throw"

\* ... with the overwrite flag ignored
onExists_NoOverwrite(options) ==
    IF ~options.increment THEN "throw" ELSE "recurse"

\* ... with the collision never raised
onExists_NoThrow(options) ==
    IF ~options.increment THEN "return" ELSE "recurse"

\* ... with the existing path returned instead of a recursion
onExists_NoRecurse(options) ==
    IF ~options.increment /\ ~options.overwrite THEN "throw" ELSE "return"

\* what the branches taken when the candidate exists decide
onExists(options) ==
    IF ~options.increment THEN
        IF ~options.overwrite THEN "throw" ELSE "return"
    ELSE "recurse"

\* ++count, skipping a number
nextCount_Skip(count) == count + 2

\* ++count
nextCount(count) == count + 1

OverwriteDisabled == "Attempting to overwrite file when overwrite is disabled: "

\* The result of a call: the path returned or the Error thrown, the count
\* of the final attempt, and the candidates probed with fs.existsSync.
RECURSIVE getFilepath(_, _, _)
getFilepath(options, count, env) ==
    LET path == filepath(options, count, env.clock.today)
        done(tag, message) ==
            [tag |-> tag, filepath |-> path, message |-> message,
             count |-> count, probed |-> <<path>>]
    IN  IF existsSync(path, env.files) THEN
            CASE onExists(options) = "throw" ->
                    done("throw", <<OverwriteDisabled, path>>)
              [] onExists(options) = "return" ->
                    done("return", <<>>)
              [] OTHER ->
                    LET r == getFilepath(options, nextCount(count), Later(env))
                    IN  [r EXCEPT !.probed = <<path>> \o @]
        ELSE done("return", <<>>)

---------------------------------------------------------------------------
(* Initial values shared by the specifications.                            *)

NoCall == [op |-> "none"]

---------------------------------------------------------------------------
(* Names used by the requests and the initial file systems.                *)

Out    == <<"o", "u", "t">>
DotOut == <<".", "/", "o", "u", "t", "/">>
Src    == <<"s", "r", "c">>
NameA  == <<"a">>
NameA1 == <<"a", "-", "1">>

StartDates ==
    {[year |-> 2024, month |-> 11, date |-> 31],
     [year |-> 2025, month |-> 0, date |-> 5]}

PreExisting(kind) == [kind |-> kind, writers |-> {}]

\* An archive "out/a[-stamp][-k].zip" left by an earlier run.
Archive(stamp, k) ==
    Out \o <<"/">> \o NameA \o stamp
        \o (IF k = 0 THEN <<>> ELSE <<"-">> \o ToStr(k)) \o <<".">> \o Zip

StampOf(d) == <<"-">> \o getTimeStamp(d)

\* The archive sets of an initial file system at date d: unstamped ones, or
\* ones stamped with d and with the day after d.
ArchiveSets(d) ==
    {{Archive(<<>>, k) : k \in ks} : ks \in SUBSET (0..MaxSuffix)}
    \cup {{Archive(StampOf(d), k) : k \in ks}
              \cup {Archive(StampOf(NextDay(d)), k) : k \in ls} :
            ks \in SUBSET (0..MaxSuffix), ls \in SUBSET (0..MaxSuffix)}

FileSystem(dirs, files) ==
    [p \in dirs \cup files |->
        IF p \in dirs THEN PreExisting("dir") ELSE PreExisting("file")]

\* The clock readings a synchronous call can see: the date stays, or it
\* advances once after k readings.
Clocks ==
    {[today |-> now, left |-> k] :
        k \in IF ticks < MaxTicks THEN 0..(MaxSuffix + 1) ELSE {0}}

\* The host's date advances by one day.
Tick ==
    /\ ~uncaught
    /\ ticks < MaxTicks
    /\ now' = NextDay(now)
    /\ ticks' = ticks + 1
    /\ UNCHANGED <<fs, inv, last, uncaught>>

---------------------------------------------------------------------------
(* Specification SpecAlloc: getFilepath called standalone on every initial *)
(* file system.                                                            *)

AllocOptions ==
    {o \in [name : {NameA, NameA1}, inputDir : {Src},
            outputDir : {Out, DotOut}, timestamp : BOOLEAN,
            increment : BOOLEAN, overwrite : BOOLEAN,
            format : {Zip}, archiverOptions : {<<>>}] :
        o.name = NameA1 => o.outputDir = Out}

InitAlloc ==
    /\ now \in StartDates
    /\ \E files \in ArchiveSets(now) : fs = FileSystem({Out, Src}, files)
    /\ ticks = 0
    /\ inv = <<>>
    /\ last = NoCall
    /\ uncaught = FALSE

\* getFilepath creating the file at the path it returns
CallGetFilepath_Reserve ==
    /\ ~uncaught
    /\ last = NoCall
    /\ \E options \in AllocOptions, count \in 0..MaxCount, clock \in Clocks :
         LET env == [files |-> DOMAIN fs, clock |-> clock]
             r   == getFilepath(options, count, env)
         IN  /\ last' = [op |-> "getFilepath", options |-> options,
                         count |-> count, env |-> env, result |-> r]
             /\ fs' = IF r.tag = "return"
                      THEN [p \in DOMAIN fs \cup {r.filepath} |->
                               IF p \in DOMAIN fs THEN fs[p]
                               ELSE PreExisting("file")]
                      ELSE fs
             /\ now' = ClockAt(clock, Len(r.probed))
             /\ ticks' = IF now' = now THEN ticks ELSE ticks + 1
    /\ UNCHANGED <<inv, uncaught>>

\* A caller calls the exported getFilepath(options, count), once on the
\* file system and date of the behaviour.
CallGetFilepath ==
    /\ ~uncaught
    /\ last = NoCall
    /\ \E options \in AllocOptions, count \in 0..MaxCount, clock \in Clocks :
         LET env == [files |-> DOMAIN fs, clock |-> clock]
             r   == getFilepath(options, count, env)
         IN  /\ last' = [op |-> "getFilepath", options |-> options,
                         count |-> count, env |-> env, result |-> r]
             /\ now' = ClockAt(clock, Len(r.probed))
             /\ ticks' = IF now' = now THEN ticks ELSE ticks + 1
    /\ UNCHANGED <<fs, inv, uncaught>>

NextAlloc == CallGetFilepath

SpecAlloc == InitAlloc /\ [][NextAlloc]_vars

\* The path the documentation gives attempt k at date d: the name, the date
\* stamp if asked for, "-k" for k > 0, the extension.
Documented(options, k, d) ==
    Canon(options.outputDir) \o <<"/">> \o options.name
        \o (IF options.timestamp THEN StampOf(d) ELSE <<>>)
        \o (IF k > 0 THEN <<"-">> \o ToStr(k) ELSE <<>>)
        \o <<".">> \o options.format

\* the candidate of attempt k of the last getFilepath call, at the date
\* that attempt reads
LastCandidate(k) ==
    Documented(last.options, k,
               ClockAt(last.env.clock, k - last.count + 1))

C2_CollisionThrows ==
    (/\ last.op = "getFilepath"
     /\ ~last.options.increment
     /\ ~last.options.overwrite
     /\ LastCandidate(0) \in last.env.files) =>
        /\ last.result.tag = "throw"
        /\ last.result.message = <<OverwriteDisabled, LastCandidate(0)>>
        /\ last.result.probed = <<LastCandidate(0)>>
        /\ last.result.count = last.count

C2_Witness ==
    /\ last.op = "getFilepath"
    /\ ~last.options.increment
    /\ ~last.options.overwrite
    /\ LastCandidate(0) \in last.env.files
    /\ last.result.tag = "throw"

\* C3: with increment false and overwrite true, a file at the candidate
\* path makes getFilepath return that same path, unsuffixed, without error.
C3_OverwriteReturnsExisting ==
    (/\ last.op = "getFilepath"
     /\ ~last.options.increment
     /\ last.options.overwrite
     /\ LastCandidate(0) \in last.env.files) =>
        /\ last.result.tag = "return"
        /\ last.result.filepath = LastCandidate(0)
        /\ last.result.filepath \in last.env.files
        /\ last.result.probed = <<LastCandidate(0)>>

C3_Witness ==
    /\ last.op = "getFilepath"
    /\ ~last.options.increment
    /\ last.options.overwrite
    /\ LastCandidate(0) \in last.env.files
    /\ last.result.tag = "return"

\* C8: a numeric suffix is appended on a name collision only when
\* options.overwrite is false.
C8_SuffixOnlyWithoutOverwrite ==
    (/\ last.op = "getFilepath"
     /\ last.result.tag = "return"
     /\ Len(last.result.probed) > 1
     /\ last.result.filepath # LastCandidate(0)) =>
        ~last.options.overwrite

---------------------------------------------------------------------------
(* createPackage and createZip.                                            *)

Tar == <<"t", "a", "r">>
Rar == <<"r", "a", "r">>

\* the formats archiver(format, options) accepts; it throws for any other
Registered == {Zip, Tar}

OutputDirMissing == <<"outputDir does not exist">>
InputDirMissing  == <<"inputDir does not exist">>
NotRegistered    == <<"format not registered">>
ArchiverFailed   == <<"archiver error">>

\* the two existence checks, with the one of inputDir left out
precondition_OutputOnly(options, files) ==
    IF ~existsSync(options.outputDir, files) THEN OutputDirMissing
    ELSE <<>>

\* the existence checks, with the format validated along with them
precondition_ValidatesFormat(options, files) ==
    IF ~existsSync(options.outputDir, files) THEN OutputDirMissing
    ELSE IF ~existsSync(options.inputDir, files) THEN InputDirMissing
    ELSE IF options.format \notin Registered THEN NotRegistered
    ELSE <<>>

\* the two existence checks, inputDir first
precondition_InputFirst(options, files) ==
    IF ~existsSync(options.inputDir, files) THEN InputDirMissing
    ELSE IF ~existsSync(options.outputDir, files) THEN OutputDirMissing
    ELSE <<>>

\* the two existence checks: the Error thrown, or <<>>
precondition(options, files) ==
    IF ~existsSync(options.outputDir, files) THEN OutputDirMissing
    ELSE IF ~existsSync(options.inputDir, files) THEN InputDirMissing
    ELSE <<>>

\* an invocation that has not been called
Idle ==
    [called   |-> FALSE,
     options  |-> defaults,
     before   |-> {},        \* the paths that existed when it was called
     probed   |-> <<>>,      \* the candidates getFilepath probed
     filepath |-> null,      \* the path handed to createZip
     promise  |-> "none",    \* none, pending, resolved, rejected
     error    |-> <<>>,      \* the Error the promise was rejected with
     output   |-> "none",    \* the write stream: none, created, open, closed, errored
     archive  |-> "none"]    \* the archiver: none, piping, done, errored

Rejected(call, error) ==
    [call EXCEPT !.promise = "rejected", !.error = error]

\* The promise executor of createZip, up to its return: the write stream is
\* created (it opens its file later), then archiver() throws for a format
\* it does not know, which rejects the promise; otherwise the listeners are
\* set and the archive is piped and finalized.
createZip(call, path) ==
    LET streaming == [call EXCEPT !.filepath = path, !.output = "created"]
    IN  IF call.options.format \notin Registered
        THEN Rejected(streaming, NotRegistered)
        ELSE [streaming EXCEPT !.promise = "pending", !.archive = "piping"]

\* createPackage up to its first suspension, which is one run of
\* synchronous code.
createPackage(config, env) ==
    LET options == ObjectAssign(defaults, config)
        call    == [Idle EXCEPT !.called = TRUE, !.options = options,
                                !.before = env.files]
        failed  == precondition(options, env.files)
    IN  IF failed # <<>> THEN Rejected(call, failed)
        ELSE LET r == getFilepath(options, 0, env)
                 allocated == [call EXCEPT !.probed = r.probed]
             IN  IF r.tag = "throw" THEN Rejected(allocated, r.message)
                 ELSE createZip(allocated, r.filepath)

\* fs.createWriteStream, opening the file before it returns
createWriteStream_Sync(fsys, path, i) ==
    [p \in DOMAIN fsys \cup {path} |->
        IF p = path THEN [kind |-> "file", writers |-> {i}] ELSE fsys[p]]

\* What fs.createWriteStream(path) of invocation i does to the file system
\* before it returns: nothing, the stream opens its file in a later turn of
\* the event loop.
createWriteStream(fsys, path, i) == fsys

\* The file system after the write stream of invocation i has opened path
\* with flag "w": the file is created or truncated.
Opened(fsys, path, i) ==
    [p \in DOMAIN fsys \cup {path} |->
        IF p # path THEN fsys[p]
        ELSE [kind |-> "file",
              writers |-> (IF p \in DOMAIN fsys THEN fsys[p].writers ELSE {})
                              \cup {i}]]

\* the paths invocation i has opened for writing
WrittenBy(i) == {p \in DOMAIN fs : i \in fs[p].writers}

---------------------------------------------------------------------------
(* Specification Spec: the createPackage invocations of one process.       *)

Missing == <<"/", "n", "o">>

PackageConfigs ==
    {[inputDir |-> Src, outputDir |-> Out],
     [name |-> NameA, inputDir |-> Src, outputDir |-> DotOut,
      timestamp |-> FALSE],
     [name |-> NameA, inputDir |-> Src, outputDir |-> Out,
      timestamp |-> FALSE, increment |-> FALSE, overwrite |-> TRUE],
     [name |-> NameA, inputDir |-> Src, outputDir |-> Out,
      timestamp |-> FALSE, increment |-> FALSE],
     [name |-> NameA, inputDir |-> Src, outputDir |-> Out,
      timestamp |-> FALSE, format |-> Rar],
     [inputDir |-> Src],
     [outputDir |-> Out],
     [inputDir |-> Missing, outputDir |-> Missing]}

\* The initial file systems: the two directories, and the unsuffixed
\* archive "out/a.zip" absent, a file, or a directory.
PackageFileSystems ==
    {FileSystem({Out, Src}, {}),
     FileSystem({Out, Src}, {Archive(<<>>, 0)}),
     FileSystem({Out, Src, Archive(<<>>, 0)}, {})}

Init ==
    /\ fs \in PackageFileSystems
    /\ now = [year |-> 2024, month |-> 11, date |-> 31]
    /\ ticks = 0
    /\ inv = [i \in 1..NumInv |-> Idle]
    /\ last = NoCall
    /\ uncaught = FALSE

\* The clock readings of a call made after the date has advanced.
ClocksNextDay ==
    IF ticks < MaxTicks THEN {[today |-> NextDay(now), left |-> 0]} ELSE {}

\* createPackage(config) is called and runs to its first suspension.
\* Invocations are numbered in the order of their calls. Only calls read
\* the clock, so the days that pass between two calls are taken when the
\* later one is made.
Call(i) ==
    /\ ~uncaught
    /\ ~inv[i].called
    /\ \A j \in 1..(i - 1) : inv[j].called
    /\ \E config \in PackageConfigs, clock \in Clocks \cup ClocksNextDay :
         LET env  == [files |-> DOMAIN fs, clock |-> clock]
             call == createPackage(config, env)
         IN  /\ inv' = [inv EXCEPT ![i] = call]
             /\ fs' = IF call.output = "created"
                      THEN createWriteStream(fs, call.filepath, i)
                      ELSE fs
             /\ now' = ClockAt(clock, IF call.probed = <<>> THEN 1
                                       ELSE Len(call.probed))
             /\ ticks' = IF now' = now THEN ticks ELSE ticks + 1
    /\ UNCHANGED <<last, uncaught>>

\* The write stream of invocation i opens its file. Opening a directory
\* fails (EISDIR): the stream emits 'error', for which createZip sets no
\* listener, so the event is thrown as an uncaught exception.
OutputOpen(i) ==
    /\ ~uncaught
    /\ inv[i].output = "created"
    /\ LET path == inv[i].filepath
       IN  IF path \in DOMAIN fs /\ fs[path].kind = "dir"
           THEN /\ inv' = [inv EXCEPT ![i].output = "errored"]
                /\ uncaught' = TRUE
                /\ UNCHANGED fs
           ELSE /\ inv' = [inv EXCEPT ![i].output = "open"]
                /\ fs' = Opened(fs, path, i)
                /\ UNCHANGED uncaught
    /\ UNCHANGED <<now, ticks, last>>

\* A write of the open stream fails (the disk is full, the file is gone):
\* the stream emits 'error', again without a listener.
OutputError(i) ==
    /\ ~uncaught
    /\ inv[i].output = "open"
    /\ inv' = [inv EXCEPT ![i].output = "errored"]
    /\ uncaught' = TRUE
    /\ UNCHANGED <<fs, now, ticks, last>>

\* The archiver emits 'error': the listener of createZip rejects.
ArchiveError(i) ==
    /\ ~uncaught
    /\ inv[i].archive = "piping"
    /\ inv[i].output \in {"created", "open"}
    /\ inv' = [inv EXCEPT ![i] =
                 [(IF @.promise = "pending" THEN Rejected(@, ArchiverFailed) ELSE @)
                     EXCEPT !.archive = "errored"]]
    /\ UNCHANGED <<fs, now, ticks, last, uncaught>>

\* 'close' of the write stream, with a listener that does not resolve
OutputClose_NoResolve(i) ==
    /\ ~uncaught
    /\ inv[i].output = "open"
    /\ inv[i].archive = "piping"
    /\ inv' = [inv EXCEPT ![i].output = "closed", ![i].archive = "done"]
    /\ UNCHANGED <<fs, now, ticks, last, uncaught>>

\* The archive has been written out and the write stream emits 'close':
\* the listener of createZip resolves.
OutputClose(i) ==
    /\ ~uncaught
    /\ inv[i].output = "open"
    /\ inv[i].archive = "piping"
    /\ inv' = [inv EXCEPT ![i].output = "closed", ![i].archive = "done",
                          ![i].promise = IF @ = "pending" THEN "resolved" ELSE @]
    /\ UNCHANGED <<fs, now, ticks, last, uncaught>>

Next ==
    \/ \E i \in 1..NumInv : Call(i)
    \/ \E i \in 1..NumInv : OutputOpen(i)
    \/ \E i \in 1..NumInv : OutputError(i)
    \/ \E i \in 1..NumInv : ArchiveError(i)
    \/ \E i \in 1..NumInv : OutputClose(i)

Spec == Init /\ [][Next]_vars

\* C4: createPackage rejects with a precondition Error whenever outputDir
\* or inputDir does not exist, before any candidate is probed and before
\* any output is created: it writes no file.
C4_PreconditionBeforeAllocation ==
    \A i \in 1..NumInv :
        (/\ inv[i].called
         /\ \/ ~existsSync(inv[i].options.outputDir, inv[i].before)
            \/ ~existsSync(inv[i].options.inputDir, inv[i].before)) =>
            /\ inv[i].promise = "rejected"
            /\ inv[i].error \in {OutputDirMissing, InputDirMissing}
            /\ inv[i].probed = <<>>
            /\ inv[i].filepath = null
            /\ inv[i].output = "none"
            /\ WrittenBy(i) = {}
            /\ inv[i].before \subseteq DOMAIN fs

\* A call with an existing outputDir and no inputDir was rejected, and
\* another invocation has written its archive since.
C4_Witness ==
    \E i, j \in 1..NumInv :
        /\ inv[i].called
        /\ existsSync(inv[i].options.outputDir, inv[i].before)
        /\ ~existsSync(inv[i].options.inputDir, inv[i].before)
        /\ inv[i].error = InputDirMissing
        /\ inv[j].promise = "resolved"

\* the request of invocation i met the conditions of C5: both directories
\* existed and the unsuffixed output path did not
FreshRequest(i) ==
    /\ inv[i].called
    /\ existsSync(inv[i].options.outputDir, inv[i].before)
    /\ existsSync(inv[i].options.inputDir, inv[i].before)
    /\ inv[i].probed # <<>>
    /\ inv[i].probed[1] \notin inv[i].before

C6_AllocationReservesNothing ==
    \A i \in 1..NumInv :
        (/\ inv[i].output = "created"
         /\ inv[i].options.increment
         /\ inv[i].filepath \in DOMAIN fs) =>
            \E j \in 1..NumInv \ {i} :
                /\ inv[j].filepath = inv[i].filepath
                /\ j \in fs[inv[i].filepath].writers

\* Two invocations with the same options, increment true, were allocated
\* the same path, which did not exist when either was called, and both
\* have opened it for writing.
C6_Witness ==
    \E i, j \in 1..NumInv :
        /\ i # j
        /\ inv[i].options = inv[j].options
        /\ inv[i].options.increment
        /\ inv[i].filepath # null
        /\ inv[i].filepath = inv[j].filepath
        /\ inv[i].filepath \in DOMAIN fs
        /\ inv[i].filepath \notin inv[i].before \cup inv[j].before
        /\ {i, j} \subseteq fs[inv[i].filepath].writers

\* C7: every failure after allocation, an 'error' of the archiver or an
\* 'error' of the output write stream, rejects the promise createPackage
\* returned.
C7_FailuresReject ==
    \A i \in 1..NumInv :
        (inv[i].archive = "errored" \/ inv[i].output = "errored") =>
            inv[i].promise = "rejected"

---------------------------------------------------------------------------
(* Specification SpecStamp: getTimeStamp applied at every date.            *)

InitStamp ==
    /\ fs = <<>>
    /\ now \in Dates
    /\ ticks = 0
    /\ inv = <<>>
    /\ last = NoCall
    /\ uncaught = FALSE

\* A caller calls the exported getTimeStamp().
CallGetTimeStamp ==
    /\ ~uncaught
    /\ last' = [op |-> "getTimeStamp", at |-> now, value |-> getTimeStamp(now)]
    /\ UNCHANGED <<fs, now, ticks, inv, uncaught>>

NextStamp == Tick \/ CallGetTimeStamp

SpecStamp == InitStamp /\ [][NextStamp]_vars

\* C10: getTimeStamp returns exactly 8 decimal digits: the year, then the
\* one-based month and the day of the month, each zero-padded to two digits.
C10_StampIsYYYYMMDD ==
    last.op = "getTimeStamp" =>
        /\ Len(last.value) = 8
        /\ \A i \in 1..Len(last.value) : IsDigit(last.value[i])
        /\ NumVal(SubSeq(last.value, 1, 4)) = last.at.year
        /\ NumVal(SubSeq(last.value, 5, 6)) = last.at.month + 1
        /\ NumVal(SubSeq(last.value, 7, 8)) = last.at.date

\* A stamp was taken on a day whose month and day are both single-digit.
C10_Witness ==
    /\ last.op = "getTimeStamp"
    /\ last.at.month + 1 < 10
    /\ last.at.date < 10
    /\ last.value[5] = "0"
    /\ last.value[7] = "0"

---------------------------------------------------------------------------
(* Further properties of getFilepath, under SpecAlloc.                     *)

\* the attempt number of the j-th probe of the last getFilepath call
LastAttempt(j) == last.count + j - 1

\* the candidate the specification gives attempt n of the last call, at
\* the date its probe reads: the numeric suffix only with increment
LastSpecified(n) ==
    Documented(last.options, IF last.options.increment THEN n ELSE 0,
               ClockAt(last.env.clock, n - last.count + 1))

\* C11: the candidate probed at attempt n is outputDir joined with the
\* name, "-<datestamp>" only if timestamp is true, "-<n>" only if increment
\* is true and n > 0, and ".<format>"; attempt 0 carries no numeric suffix,
\* and with increment false no candidate does, whatever count is passed.
C11_CandidateComposition ==
    last.op = "getFilepath" =>
        /\ \A j \in 1..Len(last.result.probed) :
               last.result.probed[j] = LastSpecified(LastAttempt(j))
        /\ (last.count = 0 \/ ~last.options.increment) =>
               last.result.probed[1] =
                   Canon(last.options.outputDir) \o <<"/">> \o last.options.name
                       \o (IF last.options.timestamp
                           THEN StampOf(last.env.clock.today) ELSE <<>>)
                       \o <<".">> \o last.options.format

\* A call with timestamp and increment true probed the unsuffixed stamped
\* candidate, found it taken and probed the "-1" candidate.
C11_Witness ==
    /\ last.op = "getFilepath"
    /\ last.options.timestamp
    /\ last.options.increment
    /\ last.count = 0
    /\ Len(last.result.probed) >= 2
    /\ last.result.probed[2] = LastSpecified(1)
    /\ last.result.probed[2] # last.result.probed[1]

\* C12: a call of getFilepath, whether it returns or throws, leaves the
\* file system as it was: no path is added or removed, no file is written,
\* and the path it returns is not created.
C12_AllocationReadOnly ==
    last.op = "getFilepath" =>
        /\ DOMAIN fs = last.env.files
        /\ \A p \in DOMAIN fs : fs[p].writers = {}
        /\ (last.result.tag = "return"
              /\ last.result.filepath \notin last.env.files) =>
               last.result.filepath \notin DOMAIN fs

\* A call has returned a path that did not exist, and it still does not.
C12_Witness ==
    /\ last.op = "getFilepath"
    /\ last.result.tag = "return"
    /\ last.result.filepath \notin last.env.files
    /\ last.result.filepath \notin DOMAIN fs

\* the first attempt from the count of the last call whose candidate does
\* not exist
LastFirstFree ==
    CHOOSE m \in last.count..(last.count + Cardinality(last.env.files)) :
        /\ LastCandidate(m) \notin last.env.files
        /\ \A i \in last.count..(m - 1) : LastCandidate(i) \in last.env.files

---------------------------------------------------------------------------
(* Further properties of createPackage, under Spec.                        *)

\* both directories of invocation i existed when it was called
DirsExisted(i) ==
    /\ existsSync(inv[i].options.outputDir, inv[i].before)
    /\ existsSync(inv[i].options.inputDir, inv[i].before)

\* C14: format is not validated before the archive is written. A call with
\* a format the archiver does not know and existing directories passes the
\* existence checks and runs the path allocation; when the allocation
\* returns a path, the write stream is created and the promise is rejected
\* with the Error archiver threw, unchanged (the only other rejection is
\* the collision Error of the allocation itself).
C14_FormatFailsAtWriting ==
    \A i \in 1..NumInv :
        (/\ inv[i].called
         /\ inv[i].options.format \notin Registered
         /\ DirsExisted(i)) =>
            /\ inv[i].probed # <<>>
            /\ inv[i].promise = "rejected"
            /\ inv[i].error \notin {OutputDirMissing, InputDirMissing}
            /\ IF inv[i].filepath # null
               THEN /\ inv[i].error = NotRegistered
                    /\ inv[i].output # "none"
                    /\ inv[i].archive = "none"
               ELSE /\ Len(inv[i].error) = 2
                    /\ inv[i].error[1] = OverwriteDisabled

\* A call with format "rar" was allocated a path and rejected with the
\* Error of archiver; its write stream has since created the file.
C14_Witness ==
    \E i \in 1..NumInv :
        /\ inv[i].called
        /\ inv[i].options.format = Rar
        /\ DirsExisted(i)
        /\ inv[i].error = NotRegistered
        /\ inv[i].filepath # null
        /\ inv[i].output = "open"
        /\ inv[i].filepath \in DOMAIN fs

\* C17: outputDir is checked before inputDir: a call whose outputDir does
\* not exist reports the outputDir Error, also when inputDir is missing
\* too, and the inputDir Error is reported only when outputDir exists.
C17_OutputDirCheckedFirst ==
    \A i \in 1..NumInv :
        inv[i].called =>
            /\ ~existsSync(inv[i].options.outputDir, inv[i].before) =>
                   (inv[i].promise = "rejected"
                      /\ inv[i].error = OutputDirMissing)
            /\ inv[i].error = InputDirMissing =>
                   /\ existsSync(inv[i].options.outputDir, inv[i].before)
                   /\ ~existsSync(inv[i].options.inputDir, inv[i].before)

\* A call with neither directory existing was rejected with the outputDir
\* Error.
C17_Witness ==
    \E i \in 1..NumInv :
        /\ inv[i].called
        /\ ~existsSync(inv[i].options.outputDir, inv[i].before)
        /\ ~existsSync(inv[i].options.inputDir, inv[i].before)
        /\ inv[i].error = OutputDirMissing

---------------------------------------------------------------------------
(* Specification SpecSeq: a caller that awaits each createPackage before   *)
(* it makes the next call, as the test script does.                        *)

\* createPackage(config) is called once the promises of the earlier
\* invocations have settled.
CallAwaited(i) ==
    /\ \A j \in 1..(i - 1) : inv[j].promise \in {"resolved", "rejected"}
    /\ Call(i)

NextSeq ==
    \/ \E i \in 1..NumInv : CallAwaited(i)
    \/ \E i \in 1..NumInv : OutputOpen(i)
    \/ \E i \in 1..NumInv : OutputError(i)
    \/ \E i \in 1..NumInv : ArchiveError(i)
    \/ \E i \in 1..NumInv : OutputClose(i)

SpecSeq == Init /\ [][NextSeq]_vars

\* the invocations called so far
Called == {i \in 1..NumInv : inv[i].called}

\* the invocations called so far form a run of calls with the same options,
\* increment true, none of which has failed
SameOptionsRun ==
    /\ Called # {}
    /\ \A i \in Called :
           /\ inv[i].options = inv[1].options
           /\ inv[i].options.increment
           /\ inv[i].promise \in {"pending", "resolved"}

===========================================================================
